---------------------------- MODULE Spec2Model ----------------------------
(***************************************************************************)
(* A model of mygeotab/api.py: the API client (call / authenticate / the   *)
(* one-shot reauthorization retry), its Credentials object and the JSON    *)
(* response interpretation of _query.                                      *)
(*                                                                         *)
(* A client operation blocks in requests.post; the model splits every      *)
(* operation at that point.  The request travels in `wire`, the server     *)
(* (the environment) replaces it by a response or a transport failure, and *)
(* the client's receive step runs the handler's code up to its next        *)
(* requests.post or to its return/raise.                                   *)
(*                                                                         *)
(* Python values are encoded as records so that any two of them can be     *)
(* compared: None is [none |-> TRUE], a string s is [str |-> s], a list is *)
(* [list |-> <<...>>] and a dict is the function from its keys to its      *)
(* values (the empty dict is << >>).                                       *)
(*                                                                         *)
(* Spec is the client used by one caller.  SpecMT, further down, is the    *)
(* client shared by two threads; there every variable but credentials,     *)
(* _reauthorize_count and given_password holds one value per thread.       *)
(***************************************************************************)
EXTENDS Integers, Sequences, FiniteSets, TLC

VARIABLES
    pc,                 \* "unconstructed" | "idle" | "call" | "authenticate": where the client blocks
    credentials,        \* API.credentials (None before construction)
    _reauthorize_count, \* API._reauthorize_count
    method,             \* local `method` of the innermost active call frame
    parameters,         \* local `parameters` of the innermost active call frame
    depth,              \* number of active call frames (0 in a top-level authenticate)
    wire,               \* the HTTP message in flight
    start,              \* history: the top-level operation in progress (or the last one) and the state it began in
    log,                \* history: the requests sent by that operation, in order
    replies,            \* history: what requests.post gave that operation back, in order
    outcome,            \* history: how the last finished operation ended
    given_password,     \* history: the password the client was constructed with
    loaded              \* the value of self._reauthorize_count a thread has read at line 115 and not yet written back

vars == <<pc, credentials, _reauthorize_count, method, parameters, depth, wire, start, log, replies, outcome, given_password, loaded>>

---------------------------------------------------------------------------
(* Python values *)

None == [none |-> TRUE]

Str(s) == [str |-> s]

List(s) == [list |-> s]

True == [bool |-> TRUE]

EmptyDict == << >>

\* Python truthiness of the values the model uses
Truthy(v) == v # None /\ v # Str("") /\ v # EmptyDict /\ v # List(<< >>)

\* d[k] = v on a dict
SetItem(d, k, v) == (k :> v) @@ d

Return(v) == [kind |-> "return", value |-> v]

Raise(e) == [kind |-> "raise", exc |-> e]

NoOutcome == [kind |-> "none"]

NoMessage == [kind |-> "none"]

---------------------------------------------------------------------------
(* Exceptions *)

Exception(message) == [type |-> "Exception", message |-> message]

\* MyGeotabException.__init__: the fields of full_error['errors'][0]
MyGeotabException(full_error) ==
    LET main_error == full_error["errors"].list[1]
    IN [type |-> "MyGeotabException",
        name |-> main_error["name"],
        message |-> main_error["message"],
        stack_trace |-> main_error["stackTrace"]]

AuthenticationException(username, database, server) ==
    [type |-> "AuthenticationException", username |-> username,
     database |-> database, server |-> server]

\* what requests.post raises on a network failure
TransportError == [type |-> "ConnectionError"]

---------------------------------------------------------------------------
(* Credentials *)

Credentials_init(username, session_id, database, server, password) ==
    [username |-> username, session_id |-> session_id, database |-> database,
     server |-> server, password |-> password]

\* get_param as it would be if it projected every field
get_param_with_password(c) ==
    [userName |-> c.username, sessionId |-> c.session_id, database |-> c.database,
     password |-> c.password]

get_param(c) ==
    [userName |-> c.username, sessionId |-> c.session_id, database |-> c.database]

---------------------------------------------------------------------------
(* API.__init__ *)

\* __init__ as it would be without the check of line 33-34
API_init_without_username_check(username, password, database, session_id, server) ==
    IF password = None /\ session_id = None
    THEN Raise(Exception("password and session_id must not both be None"))
    ELSE Return(Credentials_init(username, session_id, database, server, password))

\* __init__ as it would be without the check of line 35-36
API_init_without_session_check(username, password, database, session_id, server) ==
    IF username = None
    THEN Raise(Exception("username cannot be None"))
    ELSE Return(Credentials_init(username, session_id, database, server, password))

API_init(username, password, database, session_id, server) ==
    IF username = None
    THEN Raise(Exception("username cannot be None"))
    ELSE IF password = None /\ session_id = None
    THEN Raise(Exception("password and session_id must not both be None"))
    ELSE Return(Credentials_init(username, session_id, database, server, password))

---------------------------------------------------------------------------
(* API._get_api_url and API._query *)

DefaultServer == "my.geotab.com"

\* line 57-58: the held Credentials object gets the default host written into it
set_default_server(c) ==
    IF ~Truthy(c.server) THEN [c EXCEPT !.server = Str(DefaultServer)] ELSE c

\* urlparse on the server strings of the model, which are a host name with or
\* without the scheme before it: a string with a scheme has a netloc, a bare
\* host name is all path
urlparse(s) ==
    IF Len(s) >= 8 /\ SubSeq(s, 1, 8) = "https://"
    THEN [netloc |-> SubSeq(s, 9, Len(s)), path |-> ""]
    ELSE [netloc |-> "", path |-> s]

\* line 59-62, on Credentials whose server is set
get_api_url(c) ==
    LET parsed == urlparse(c.server.str)
        base_url == IF parsed.netloc # "" THEN parsed.netloc ELSE parsed.path
    IN "https://" \o base_url \o "/apiv1"

\* Python's sub in s on strings
Contains(s, sub) ==
    \E i \in 1..(Len(s) - Len(sub) + 1) : SubSeq(s, i, i + Len(sub) - 1) = sub

\* line 76
is_live(url) == ~\E s \in {"127.0.0.1", "localhost"} : Contains(url, s)

\* _query as it would be if it returned the whole body of a success
query_data_whole_body(data) ==
    IF Truthy(data)
    THEN IF "error" \in DOMAIN data
         THEN Raise(MyGeotabException(data["error"]))
         ELSE Return(data)
    ELSE Return(None)

\* _query as it would be if it looked for a result before an error
query_data_result_first(data) ==
    IF Truthy(data)
    THEN IF "result" \in DOMAIN data
         THEN Return(data["result"])
         ELSE IF "error" \in DOMAIN data
         THEN Raise(MyGeotabException(data["error"]))
         ELSE Return(data)
    ELSE Return(None)

\* line 78-85: the interpretation of the decoded body
query_data(data) ==
    IF Truthy(data)
    THEN IF "error" \in DOMAIN data
         THEN Raise(MyGeotabException(data["error"]))
         ELSE IF "result" \in DOMAIN data
         THEN Return(data["result"])
         ELSE Return(data)
    ELSE Return(None)

\* what _query returns or raises for the message the server put on the wire
query_result(w) ==
    IF w.kind = "failure" THEN Raise(TransportError) ELSE query_data(w.data)

---------------------------------------------------------------------------
(* API.call and API.authenticate, as pure functions of what they read *)

\* line 101-102 and 105-106: the parameters call sends
call_parameters(c, type_name, kwargs) ==
    LET p == IF Truthy(type_name) THEN SetItem(kwargs, "typeName", type_name) ELSE kwargs
    IN IF "credentials" \notin DOMAIN p /\ Truthy(c.session_id)
       THEN SetItem(p, "credentials", get_param(c))
       ELSE p

\* line 103: the only case in which call authenticates before its query
must_authenticate_first(c) == c = None

\* line 110
is_success(result) == result # None

\* line 114 as it would be without the test of the counter
should_reauthorize_ignoring_count(exception, count) ==
    /\ exception.type = "MyGeotabException"
    /\ exception.name = Str("InvalidUserException")

\* line 114 as it would be with the counter tested one too late
should_reauthorize_off_by_one(exception, count) ==
    /\ exception.type = "MyGeotabException"
    /\ exception.name = Str("InvalidUserException")
    /\ count <= 1

\* line 114
should_reauthorize(exception, count) ==
    /\ exception.type = "MyGeotabException"
    /\ exception.name = Str("InvalidUserException")
    /\ count = 0

\* line 181-183
auth_data(c) ==
    [database |-> c.database, userName |-> c.username, password |-> c.password,
     global |-> True]

\* line 187-190 as they would be without the test for "ThisServer"
resolve_server_always_new(server, new_server) == new_server

\* line 187-190
resolve_server(server, new_server) ==
    IF new_server # Str("ThisServer") THEN new_server ELSE server

\* line 186-193 on a truthy result: the Credentials authenticate installs
\* line 191-192 as they would be if the new Credentials kept the session id held
new_credentials_with_held_session(c, result) ==
    LET cr == result["credentials"]
    IN Credentials_init(cr["userName"], c.session_id, cr["database"],
                        resolve_server(c.server, result["path"]), None)

new_credentials(c, result) ==
    LET cr == result["credentials"]
    IN Credentials_init(cr["userName"], cr["sessionId"], cr["database"],
                        resolve_server(c.server, result["path"]), None)

\* line 184-198: the held credentials after authenticate and what it returns or
\* raises, given what _query returned or raised
authenticate_result(c, r) ==
    IF r.kind = "return"
    THEN IF Truthy(r.value)
         THEN IF {"path", "credentials"} \subseteq DOMAIN r.value
              THEN [credentials |-> new_credentials(c, r.value),
                    out |-> Return(new_credentials(c, r.value))]
              ELSE [credentials |-> c, out |-> Raise([type |-> "KeyError"])]
         ELSE [credentials |-> c, out |-> Return(None)]
    ELSE IF r.exc.type = "MyGeotabException" /\ r.exc.name = Str("InvalidUserException")
    THEN [credentials |-> c,
          out |-> Raise(AuthenticationException(c.username, c.database, c.server))]
    ELSE [credentials |-> c, out |-> r]

---------------------------------------------------------------------------
(* The inputs of the operations and the bodies the server answers with *)

\* longest list of calls given to multi_call
MaxCalls == 2

Usernames == {None, Str(""), Str("u")}

Passwords == {None, Str("p")}

Databases == {None, Str("db")}

SessionIds == {None, Str("s0")}

Servers == {None, Str("https://localhost"), Str("mylocalhost.com")}

Methods == {None, Str("Get")}

TypeNames == {None, Str("Device")}

\* keyword parameters of call and get: none, a search, credentials of the caller's own
Kwargs ==
    {EmptyDict,
     [id |-> Str("b123")],
     [credentials |-> [userName |-> Str("other"), sessionId |-> Str("sx"), database |-> None]]}

Entities == {[name |-> Str("x")]}

\* the (method, params) pairs multi_call is given
CallPairs == {<<Str("Get"), [typeName |-> Str("Trip")]>>, <<Str("Get"), [typeName |-> Str("Device")]>>}

CallLists == UNION {[1..n -> CallPairs] : n \in 0..MaxCalls}

ErrorBody(name) ==
    [error |-> [errors |-> List(<<[name |-> Str(name), message |-> Str("m"), stackTrace |-> Str("s")]>>)]]

ResultBody(result) == [result |-> result]

AuthenticateBody(path, session_id) ==
    ResultBody([path |-> Str(path),
                credentials |-> [userName |-> Str("u"), sessionId |-> Str(session_id),
                                 database |-> Str("db")]])

\* what the server answers to Authenticate: a login, an application error, an
\* empty body, or a body that is no login
AuthenticateBodies ==
    {AuthenticateBody("ThisServer", "s1"), AuthenticateBody("my3.geotab.com", "s2"),
     ErrorBody("InvalidUserException"), ErrorBody("DbUnavailableException"),
     EmptyDict, [version |-> Str("5.7")]}

\* what the server answers to any other method
MethodBodies ==
    {ResultBody([id |-> Str("b123")]), ResultBody(List(<< >>)), ResultBody(None),
     [version |-> Str("5.7")], EmptyDict, None,
     ErrorBody("InvalidUserException"), ErrorBody("DbUnavailableException"),
     ErrorBody("DbUnavailableException") @@ ResultBody([id |-> Str("b123")])}

Bodies(request) ==
    IF request.method = Str("Authenticate") THEN AuthenticateBodies ELSE MethodBodies

---------------------------------------------------------------------------
(* The state machine *)

Init ==
    /\ pc = "unconstructed"
    /\ credentials = None
    /\ _reauthorize_count = 0
    /\ method = None
    /\ parameters = EmptyDict
    /\ depth = 0
    /\ wire = NoMessage
    /\ start = [op |-> "none"]
    /\ log = << >>
    /\ replies = << >>
    /\ outcome = NoOutcome
    /\ given_password = None
    /\ loaded = None

\* the top-level operation returns or raises: every frame is left
Finish(o) ==
    /\ pc' = "idle"
    /\ outcome' = o
    /\ wire' = NoMessage
    /\ depth' = 0
    /\ method' = None
    /\ parameters' = EmptyDict

\* the request URLs of the model: those of the servers a client is constructed
\* with, of the default server and of the server a login names
URLs ==
    {get_api_url([server |-> s]) :
         s \in (Servers \ {None}) \cup {Str(DefaultServer), Str("my3.geotab.com")}}

\* line 76 for each of these URLs, computed once
is_live_of == [url \in URLs |-> is_live(url)]

\* line 73-77: the request requests.post sends
Request(c, m, p) ==
    LET url == get_api_url(set_default_server(c))
    IN [kind |-> "request", url |-> url, id |-> -1, method |-> m, params |-> p,
        verify |-> is_live_of[url]]

\* _query up to requests.post, on credentials c, after the requests of lg
Send(c, m, p, lg) ==
    /\ credentials' = set_default_server(c)
    /\ wire' = Request(c, m, p)
    /\ log' = Append(lg, wire')

\* API.call(m, type_name, **kwargs) from its entry to its requests.post, as
\* frame number d
call_enter(c, m, type_name, kwargs, d, lg) ==
    IF m = None
    THEN Finish(Raise(Exception("Must specify a method name"))) /\ credentials' = c /\ log' = lg
    ELSE IF must_authenticate_first(c)
    THEN Finish(Raise([type |-> "AttributeError"])) /\ credentials' = c /\ log' = lg
    ELSE /\ pc' = "call"
         /\ method' = m
         /\ parameters' = call_parameters(c, type_name, kwargs)
         /\ depth' = d
         /\ outcome' = NoOutcome
         /\ Send(c, m, call_parameters(c, type_name, kwargs), lg)

\* API.authenticate() from its entry to its requests.post
authenticate_enter(c, lg) ==
    /\ pc' = "authenticate"
    /\ outcome' = NoOutcome
    /\ Send(c, Str("Authenticate"), auth_data(c), lg)

Snapshot(op, m, type_name, kwargs) ==
    [op |-> op, method |-> m, type_name |-> type_name, kwargs |-> kwargs,
     credentials |-> credentials, count |-> _reauthorize_count]

Construct ==
    /\ pc = "unconstructed"
    /\ \E username \in Usernames, password \in Passwords, database \in Databases,
          session_id \in SessionIds, server \in Servers :
          LET r == API_init(username, password, database, session_id, server)
          IN /\ start' = [op |-> "construct", username |-> username, password |-> password,
                          database |-> database, session_id |-> session_id, server |-> server]
             /\ outcome' = r
             /\ pc' = IF r.kind = "return" THEN "idle" ELSE "unconstructed"
             /\ credentials' = IF r.kind = "return" THEN r.value ELSE None
             /\ given_password' = IF r.kind = "return" THEN password ELSE None
             /\ UNCHANGED loaded
    /\ UNCHANGED <<_reauthorize_count, method, parameters, depth, wire, log, replies>>

\* line 47-48: API.from_credentials on the held Credentials; the client of the
\* model is from then on the new API object
FromCredentials ==
    /\ pc = "idle"
    /\ LET r == API_init(credentials.username, credentials.password, credentials.database,
                         credentials.session_id, credentials.server)
       IN /\ start' = [op |-> "from_credentials", username |-> credentials.username,
                       password |-> credentials.password, database |-> credentials.database,
                       session_id |-> credentials.session_id, server |-> credentials.server]
          /\ outcome' = r
          /\ pc' = IF r.kind = "return" THEN "idle" ELSE "unconstructed"
          /\ credentials' = IF r.kind = "return" THEN r.value ELSE None
          /\ given_password' = IF r.kind = "return" THEN credentials.password ELSE None
          /\ UNCHANGED loaded
    /\ _reauthorize_count' = 0
    /\ log' = << >>
    /\ replies' = << >>
    /\ UNCHANGED <<method, parameters, depth, wire>>

Call ==
    /\ pc = "idle"
    /\ \E m \in Methods, type_name \in TypeNames, kwargs \in Kwargs :
          /\ start' = Snapshot("call", m, type_name, kwargs)
          /\ call_enter(credentials, m, type_name, kwargs, 1, << >>)
    /\ replies' = << >>
    /\ UNCHANGED <<_reauthorize_count, given_password, loaded>>

\* the formatting of multi_call as it would be if it built the list back to front
formatted_calls_reversed(calls) ==
    List([i \in 1..Len(calls) |->
             [method |-> calls[Len(calls) + 1 - i][1], params |-> calls[Len(calls) + 1 - i][2]]])

\* line 128
formatted_calls(calls) ==
    List([i \in 1..Len(calls) |-> [method |-> calls[i][1], params |-> calls[i][2]]])

\* line 128-129
MultiCall ==
    /\ pc = "idle"
    /\ \E calls \in CallLists :
          /\ start' = Snapshot("multi_call", Str("ExecuteMultiCall"), None, [calls |-> List(calls)])
          /\ call_enter(credentials, Str("ExecuteMultiCall"), None,
                        [calls |-> formatted_calls(calls)], 1, << >>)
    /\ replies' = << >>
    /\ UNCHANGED <<_reauthorize_count, given_password, loaded>>

\* line 140
Get ==
    /\ pc = "idle"
    /\ \E type_name \in TypeNames \ {None}, kwargs \in Kwargs :
          /\ start' = Snapshot("get", Str("Get"), type_name, kwargs)
          /\ call_enter(credentials, Str("Get"), type_name, kwargs, 1, << >>)
    /\ replies' = << >>
    /\ UNCHANGED <<_reauthorize_count, given_password, loaded>>

\* line 151, 161 and 171
AddSetRemove ==
    /\ pc = "idle"
    /\ \E op \in {"add", "set", "remove"}, type_name \in TypeNames \ {None}, entity \in Entities :
          LET m == CASE op = "add" -> Str("Add") [] op = "set" -> Str("Set") [] op = "remove" -> Str("Remove")
          IN /\ start' = Snapshot(op, m, type_name, [entity |-> entity])
             /\ call_enter(credentials, m, type_name, [entity |-> entity], 1, << >>)
    /\ replies' = << >>
    /\ UNCHANGED <<_reauthorize_count, given_password, loaded>>

Authenticate ==
    /\ pc = "idle"
    /\ start' = Snapshot("authenticate", None, None, EmptyDict)
    /\ authenticate_enter(credentials, << >>)
    /\ replies' = << >>
    /\ UNCHANGED <<_reauthorize_count, method, parameters, depth, given_password, loaded>>

\* line 109-119, from the return of requests.post
CallReceive ==
    /\ pc = "call"
    /\ wire.kind \in {"response", "failure"}
    /\ LET r == query_result(wire)
       IN IF r.kind = "return"
          THEN /\ Finish(r)
               /\ _reauthorize_count' = IF is_success(r.value) THEN 0 ELSE _reauthorize_count
               /\ UNCHANGED <<credentials, log>>
          ELSE IF should_reauthorize(r.exc, _reauthorize_count)
          THEN /\ _reauthorize_count' = _reauthorize_count + 1
               /\ authenticate_enter(credentials, log)
               /\ UNCHANGED <<method, parameters, depth>>
          ELSE /\ Finish(r)
               /\ UNCHANGED <<_reauthorize_count, credentials, log>>
    /\ replies' = Append(replies, wire)
    /\ UNCHANGED <<start, given_password, loaded>>

\* line 185-198, from the return of requests.post; inside call (depth > 0) a
\* return of authenticate is followed by line 117, self.call(method, parameters)
AuthenticateReceive ==
    /\ pc = "authenticate"
    /\ wire.kind \in {"response", "failure"}
    /\ LET a == authenticate_result(credentials, query_result(wire))
       IN IF a.out.kind = "raise" \/ depth = 0
          THEN /\ Finish(a.out)
               /\ credentials' = a.credentials
               /\ UNCHANGED log
          ELSE call_enter(a.credentials, method, parameters, EmptyDict, depth + 1, log)
    /\ replies' = Append(replies, wire)
    /\ UNCHANGED <<_reauthorize_count, start, given_password, loaded>>

\* the server answers the request in flight
ServerRespond ==
    /\ wire.kind = "request"
    /\ \E data \in Bodies(wire) : wire' = [kind |-> "response", data |-> data]
    /\ UNCHANGED <<pc, credentials, _reauthorize_count, method, parameters, depth, start, log, replies, outcome, given_password, loaded>>

\* requests.post fails
TransportFailure ==
    /\ wire.kind = "request"
    /\ wire' = [kind |-> "failure"]
    /\ UNCHANGED <<pc, credentials, _reauthorize_count, method, parameters, depth, start, log, replies, outcome, given_password, loaded>>

Next ==
    \/ Construct
    \/ FromCredentials
    \/ Call
    \/ MultiCall
    \/ Get
    \/ AddSetRemove
    \/ Authenticate
    \/ CallReceive
    \/ AuthenticateReceive
    \/ ServerRespond
    \/ TransportFailure

Spec == Init /\ [][Next]_vars

---------------------------------------------------------------------------
(* Vocabulary of the properties *)

\* the operations that go through API.call
CallOps == {"call", "multi_call", "get", "add", "set", "remove"}

\* a top-level operation through API.call, given a method, has begun
InCall == start.op \in CallOps /\ start.method # None

\* that operation has returned or raised
CallDone == InCall /\ pc = "idle"

IsAuthenticate(request) == request.method = Str("Authenticate")

\* the positions in log of the Authenticate requests, and of the others
AuthenticateRequests == {i \in DOMAIN log : IsAuthenticate(log[i])}

MethodRequests == {i \in DOMAIN log : ~IsAuthenticate(log[i])}

\* the reply is an application error named InvalidUserException
IsInvalidUser(reply) ==
    /\ reply.kind = "response"
    /\ query_data(reply.data).kind = "raise"
    /\ query_data(reply.data).exc.name = Str("InvalidUserException")

\* the reply is an application error of another name
IsOtherError(reply) ==
    /\ reply.kind = "response"
    /\ query_data(reply.data).kind = "raise"
    /\ query_data(reply.data).exc.name # Str("InvalidUserException")

\* the reply is a body with a result that is not null and no error
IsValidResult(reply) ==
    /\ reply.kind = "response"
    /\ Truthy(reply.data)
    /\ "error" \notin DOMAIN reply.data
    /\ "result" \in DOMAIN reply.data
    /\ reply.data["result"] # None

\* the reply is a login: a result with path and credentials
IsLogin(reply) ==
    /\ IsValidResult(reply)
    /\ {"path", "credentials"} \subseteq DOMAIN reply.data["result"]

\* a dict without its key `credentials`
WithoutCredentials(p) == [k \in DOMAIN p \ {"credentials"} |-> p[k]]

---------------------------------------------------------------------------
(* C1 *)

\* C1: when a call got InvalidUserException with the counter at 0 and retried
\* after authenticate(), the retried request (the third of the operation) has
\* the method of the original request and the same parameters at the same
\* keys, credentials aside.
C1_RetrySendsSameRequest ==
    (InCall /\ start.count = 0 /\ Len(log) = 3 /\ IsInvalidUser(replies[1]))
        => /\ IsAuthenticate(log[2])
           /\ log[3].method = log[1].method
           /\ WithoutCredentials(log[3].params) = WithoutCredentials(log[1].params)

---------------------------------------------------------------------------
(* C2 *)

\* C2: a call on a client that holds a password and no session token sends an
\* Authenticate request first, and the request of the called method after it.
C2_AuthenticatesBeforeFirstCall ==
    (InCall /\ start.credentials.session_id = None /\ start.credentials.password # None
        /\ Len(log) >= 1)
        => IsAuthenticate(log[1])

---------------------------------------------------------------------------
(* C3 *)

\* C3: after a top-level call has returned (not raised), whatever the
\* successful response was, the reauthorization counter is 0.
C3_CounterZeroAfterReturn ==
    (CallDone /\ outcome.kind = "return") => _reauthorize_count = 0

---------------------------------------------------------------------------
(* C4 *)

\* C4: one top-level call sends at most one Authenticate request and at most
\* two requests of its own method (the original and one retry), never nests
\* deeper than the retry, and when the retry is answered InvalidUserException
\* the call ends by raising that MyGeotabException.
C4_AtMostOneRetry ==
    InCall =>
        /\ Cardinality(AuthenticateRequests) <= 1
        /\ Cardinality(MethodRequests) <= 2
        /\ \A i \in MethodRequests : log[i].method = start.method
        /\ depth <= 2
        /\ (pc = "idle" /\ Len(replies) = 3 /\ IsInvalidUser(replies[3]))
               => outcome = Raise(MyGeotabException(replies[3].data["error"]))

\* C4 witness: a call whose retry was answered InvalidUserException has ended
C4_RetryRejected ==
    /\ CallDone
    /\ Len(log) = 3
    /\ IsInvalidUser(replies[1])
    /\ IsInvalidUser(replies[3])
    /\ outcome.kind = "raise"

---------------------------------------------------------------------------
(* C5 *)

\* C5: the reauthorization counter is 0 or 1 in every reachable state.
C5_CounterIsZeroOrOne == _reauthorize_count \in {0, 1}

\* C5 witness: the counter is 1 while a call is reauthenticating
C5_CounterIsOne ==
    /\ _reauthorize_count = 1
    /\ pc = "authenticate"
    /\ depth = 1

---------------------------------------------------------------------------
(* C6 *)

\* C6 as stated: a finished call has sent exactly one request when it did not
\* reauthenticate and at most two in all, and when the first reply was
\* InvalidUserException and the next one a valid result it has sent exactly
\* two requests.
C6_TwoRequestsWithRetry ==
    CallDone =>
        /\ (AuthenticateRequests = {} => Len(log) = 1)
        /\ Len(log) <= 2
        /\ (Len(replies) >= 2 /\ IsInvalidUser(replies[1]) /\ IsValidResult(replies[2]))
               => Len(log) = 2

\* C6 amended: a finished call has sent exactly one request when it did not
\* reauthenticate and at most three in all (the original, Authenticate, the
\* retry, in this order); when the first reply was InvalidUserException and
\* the reply to Authenticate a login, it has sent exactly three requests, and
\* it returns the result of the third reply when that is a valid result.
C6_ThreeRequestsWithRetry ==
    CallDone =>
        /\ (AuthenticateRequests = {} => Len(log) = 1)
        /\ Len(log) <= 3
        /\ Len(replies) = Len(log)
        /\ (Len(log) >= 2 => ~IsAuthenticate(log[1]) /\ IsAuthenticate(log[2]))
        /\ (Len(log) = 3 => ~IsAuthenticate(log[3]))
        /\ (Len(replies) >= 2 /\ IsInvalidUser(replies[1]) /\ IsLogin(replies[2]))
               => /\ Len(log) = 3
                  /\ IsValidResult(replies[3]) => outcome = Return(replies[3].data["result"])

\* C6 witness: a call has returned the result of its retry
C6_RetryReturned ==
    /\ CallDone
    /\ Len(log) = 3
    /\ IsInvalidUser(replies[1])
    /\ IsLogin(replies[2])
    /\ IsValidResult(replies[3])
    /\ outcome.kind = "return"

---------------------------------------------------------------------------
(* C7 *)

\* C7: when a top-level authenticate() has ended on an application error, it
\* raised AuthenticationException with the held username, database and server
\* if the error was InvalidUserException and that MyGeotabException otherwise,
\* and the held Credentials are what they were when it was called.
C7_FailedAuthenticateChangesNothing ==
    (pc = "idle" /\ start.op = "authenticate" /\ outcome.kind = "raise"
        /\ replies[1].kind = "response")
        => /\ IsInvalidUser(replies[1])
                  => outcome.exc = AuthenticationException(credentials.username,
                                       credentials.database, credentials.server)
           /\ IsOtherError(replies[1])
                  => outcome.exc = MyGeotabException(replies[1].data["error"])
           /\ credentials = start.credentials

---------------------------------------------------------------------------
(* C8 *)

\* C8: the step in which authenticate() receives a login replaces the held
\* Credentials by ones with the userName, sessionId and database of the login,
\* and with the host of the replaced Credentials if path is "ThisServer" and
\* path otherwise; a top-level authenticate() returns the new Credentials.
C8_LoginReplacesCredentials ==
    [][(pc = "authenticate" /\ wire.kind = "response" /\ IsLogin(wire))
          => LET login == wire.data["result"]
             IN /\ credentials'.username = login["credentials"]["userName"]
                /\ credentials'.session_id = login["credentials"]["sessionId"]
                /\ credentials'.database = login["credentials"]["database"]
                /\ credentials'.server = IF login["path"] = Str("ThisServer")
                                         THEN credentials.server
                                         ELSE login["path"]
                /\ depth = 0 => outcome' = Return(credentials')]_vars

\* C8 witness: a top-level authenticate() has returned after a login on
\* another host than the one held before
C8_LoggedInOnNewHost ==
    /\ pc = "idle"
    /\ start.op = "authenticate"
    /\ outcome.kind = "return"
    /\ IsLogin(replies[1])
    /\ replies[1].data["result"]["path"] # Str("ThisServer")
    /\ credentials.server # start.credentials.server
    /\ credentials.server = replies[1].data["result"]["path"]

---------------------------------------------------------------------------
(* C9 *)

RECURSIVE Carries(_, _)
\* the value v is x, has the key x, or holds a value that does
Carries(v, x) ==
    IF v = x \/ DOMAIN v \in {{"str"}, {"none"}, {"bool"}}
    THEN v = x
    ELSE IF DOMAIN v = {"list"}
    THEN \E i \in DOMAIN v.list : Carries(v.list[i], x)
    ELSE \E k \in DOMAIN v : Str(k) = x \/ Carries(v[k], x)

\* the request in flight got its `credentials` from call, not from the caller
CredentialsAttachedByCall ==
    /\ wire.kind = "request"
    /\ ~IsAuthenticate(wire)
    /\ "credentials" \in DOMAIN wire.params
    /\ ~(depth = 1 /\ "credentials" \in DOMAIN start.kwargs)

\* C9: a request in flight that is not Authenticate carries neither a password
\* of the client nor a key `password`, and the `credentials` call attached to it are
\* exactly the userName, sessionId and database of the held Credentials.
C9_PasswordOnlyInAuthenticate ==
    (wire.kind = "request" /\ ~IsAuthenticate(wire))
        => /\ \A password \in Passwords \ {None} : ~Carries(wire.params, password)
           /\ ~Carries(wire.params, Str("password"))
           /\ CredentialsAttachedByCall
                  => wire.params["credentials"] =
                         [userName |-> credentials.username,
                          sessionId |-> credentials.session_id,
                          database |-> credentials.database]

\* C9 witness: a client that holds a password and a session has a request with
\* attached credentials in flight
C9_RequestOfPasswordHolder ==
    /\ CredentialsAttachedByCall
    /\ credentials.password = Str("p")
    /\ wire.params["credentials"]["sessionId"] = Str("s0")

---------------------------------------------------------------------------
(* C10 *)

\* C10 as stated: a construction with a null or an empty username raises, and
\* no client holds a null or an empty username.
C10_NoNullOrEmptyUsername ==
    /\ (start.op = "construct" /\ start.username \in {None, Str("")})
           => outcome.kind = "raise" /\ pc = "unconstructed"
    /\ pc # "unconstructed" => credentials.username \notin {None, Str("")}

\* C10 amended: a construction with a null (None) username raises the
\* construction error, with and without a password, and no client holds a null
\* username; an empty string is accepted as a username.
C10_NoNullUsername ==
    /\ (start.op = "construct" /\ start.username = None)
           => /\ outcome = Raise(Exception("username cannot be None"))
              /\ pc = "unconstructed"
    /\ pc # "unconstructed" => credentials.username # None

\* C10 witness: a construction with a null username and a password has failed
C10_NullUsernameRejected ==
    /\ start.op = "construct"
    /\ start.username = None
    /\ start.password # None
    /\ outcome.kind = "raise"

---------------------------------------------------------------------------
(* C11 *)

\* C11: a construction with neither a password nor a session id (both None)
\* raises the construction error, and the Credentials of every client just
\* built by API(...) or by API.from_credentials hold a password or a session id.
C11_PasswordOrSessionAtConstruction ==
    /\ (start.op = "construct" /\ start.username # None
           /\ start.password = None /\ start.session_id = None)
           => /\ outcome = Raise(Exception("password and session_id must not both be None"))
              /\ pc = "unconstructed"
    /\ (start.op \in {"construct", "from_credentials"} /\ outcome.kind = "return")
           => /\ credentials = outcome.value
              /\ credentials.password # None \/ credentials.session_id # None

\* C11 witness: a client has been built by from_credentials from Credentials
\* that hold a session id and no password
C11_BuiltFromSessionCredentials ==
    /\ start.op = "from_credentials"
    /\ outcome.kind = "return"
    /\ credentials.password = None
    /\ credentials.session_id # None

---------------------------------------------------------------------------
(* C12 *)

\* a call has ended on the decoded body of the reply to its last request
EndedOnBody ==
    /\ CallDone
    /\ Len(log) >= 1
    /\ Len(replies) = Len(log)
    /\ ~IsAuthenticate(log[Len(log)])
    /\ replies[Len(replies)].kind = "response"

\* C12: a call that ends on a decoded body returns None for a falsy body,
\* raises the MyGeotabException of errors[0] for a body with an error key
\* (also when it has a result key), returns the result of a body with a result
\* key and no error key, and returns the whole body otherwise.
C12_BodyInterpretation ==
    EndedOnBody =>
        LET data == replies[Len(replies)].data
        IN outcome =
               IF ~Truthy(data)
               THEN Return(None)
               ELSE IF "error" \in DOMAIN data
               THEN Raise([type |-> "MyGeotabException",
                           name |-> data["error"]["errors"].list[1]["name"],
                           message |-> data["error"]["errors"].list[1]["message"],
                           stack_trace |-> data["error"]["errors"].list[1]["stackTrace"]])
               ELSE IF "result" \in DOMAIN data
               THEN Return(data["result"])
               ELSE Return(data)

\* C12 witness: a call has raised on a body that holds an error and a result
C12_ErrorBeforeResult ==
    /\ EndedOnBody
    /\ {"error", "result"} \subseteq DOMAIN replies[Len(replies)].data
    /\ outcome.kind = "raise"

---------------------------------------------------------------------------
(* C13 *)

\* C13: the first request of a multi_call has the method ExecuteMultiCall and
\* under calls one {method, params} dict per pair given, in the order given;
\* as long as the client has sent no Authenticate request it is the only
\* request of the multi_call.
C13_MultiCallIsOneRequest ==
    (start.op = "multi_call" /\ Len(log) >= 1) =>
        LET calls == start.kwargs["calls"].list
            sent == log[1].params["calls"].list
        IN /\ log[1].method = Str("ExecuteMultiCall")
           /\ Len(sent) = Len(calls)
           /\ \A i \in 1..Len(calls) :
                 sent[i] = [method |-> calls[i][1], params |-> calls[i][2]]
           /\ (AuthenticateRequests = {} => Len(log) = 1)

\* C13 witness: a multi_call of two different calls has returned after one
\* request
C13_TwoCallsReturned ==
    /\ start.op = "multi_call"
    /\ Len(start.kwargs["calls"].list) = 2
    /\ start.kwargs["calls"].list[1] # start.kwargs["calls"].list[2]
    /\ Len(log) = 1
    /\ pc = "idle"
    /\ outcome.kind = "return"

---------------------------------------------------------------------------
(* C14 *)

\* the host of a request URL, which is https://<host>/apiv1
HostOf(url) == SubSeq(url, 9, Len(url) - 6)

\* C14: a request is sent without certificate verification if and only if its
\* host is 127.0.0.1 or localhost.
C14_VerifyOffOnlyForLoopback ==
    \A i \in DOMAIN log :
        (log[i].verify = FALSE) <=> (HostOf(log[i].url) \in {"127.0.0.1", "localhost"})

---------------------------------------------------------------------------
(* C15 *)

\* C15: every request that get, add, set or remove sends with a method of the
\* API has the method Get, Add, Set or Remove of the wrapper, the type name
\* given under typeName, and the filters or the entity given under their keys.
C15_WrapperRequests ==
    start.op \in {"get", "add", "set", "remove"} =>
        \A i \in MethodRequests :
            /\ log[i].method = CASE start.op = "get" -> Str("Get")
                                 [] start.op = "add" -> Str("Add")
                                 [] start.op = "set" -> Str("Set")
                                 [] start.op = "remove" -> Str("Remove")
            /\ "typeName" \in DOMAIN log[i].params
            /\ log[i].params["typeName"] = start.type_name
            /\ \A k \in DOMAIN start.kwargs :
                  /\ k \in DOMAIN log[i].params
                  /\ log[i].params[k] = start.kwargs[k]

---------------------------------------------------------------------------
(* C16 *)

\* C16: every call made on the client starts with the reauthorization counter
\* at 0.
C16_CallStartsAtZero ==
    start.op \in CallOps => start.count = 0

---------------------------------------------------------------------------
(* C17 *)

\* C17: every Authenticate request of a client constructed with a password
\* carries that password.
C17_AuthenticateCarriesPassword ==
    given_password # None =>
        \A i \in AuthenticateRequests : log[i].params["password"] = given_password

---------------------------------------------------------------------------
(* C18 *)

\* C18: in a call whose caller gave no credentials parameter, the request sent
\* after an Authenticate request that was answered by a login carries under
\* credentials the session id of that login.
C18_RetryCarriesNewSession ==
    (InCall /\ "credentials" \notin DOMAIN start.kwargs) =>
        \A i \in AuthenticateRequests :
            (i + 1 \in DOMAIN log /\ IsLogin(replies[i])) =>
                /\ "credentials" \in DOMAIN log[i + 1].params
                /\ log[i + 1].params["credentials"]["sessionId"]
                       = replies[i].data["result"]["credentials"]["sessionId"]

\* C18 witness: a call made with a session id that the server rejected has sent
\* its request again after a login, with another session id
C18_RetriedWithNewSession ==
    /\ InCall
    /\ "credentials" \notin DOMAIN start.kwargs
    /\ start.credentials.session_id # None
    /\ Len(log) = 3
    /\ IsInvalidUser(replies[1])
    /\ IsLogin(replies[2])
    /\ log[1].params["credentials"]["sessionId"] = start.credentials.session_id
    /\ log[3].params["credentials"]["sessionId"] # start.credentials.session_id

---------------------------------------------------------------------------
(* C19 *)

---------------------------------------------------------------------------
(* Two threads calling on one client                                       *)
(*                                                                         *)
(* The client is shared: credentials and _reauthorize_count are the        *)
(* attributes of the one API object, every other variable holds one value  *)
(* per thread.  Each thread makes one call.  A step of a thread holds at    *)
(* most one access to _reauthorize_count: the test of line 114, the read    *)
(* and the write of the += of line 115 are three steps.                     *)

Threads == {1, 2}

\* the bodies the server answers a thread with
BodiesMT(request) ==
    IF request.method = Str("Authenticate")
    THEN {AuthenticateBody("ThisServer", "s1"), ErrorBody("InvalidUserException")}
    ELSE {ResultBody([id |-> Str("b123")]), None, ErrorBody("InvalidUserException")}

\* the client was constructed with a session id, with or without a password
InitMT ==
    /\ \E password \in Passwords :
          LET r == API_init(Str("u"), password, None, Str("s0"), None)
          IN /\ r.kind = "return"
             /\ credentials = r.value
             /\ given_password = password
    /\ _reauthorize_count = 0
    /\ pc = [t \in Threads |-> "idle"]
    /\ method = [t \in Threads |-> None]
    /\ parameters = [t \in Threads |-> EmptyDict]
    /\ depth = [t \in Threads |-> 0]
    /\ wire = [t \in Threads |-> NoMessage]
    /\ start = [t \in Threads |-> [op |-> "none"]]
    /\ log = [t \in Threads |-> << >>]
    /\ replies = [t \in Threads |-> << >>]
    /\ outcome = [t \in Threads |-> NoOutcome]
    /\ loaded = [t \in Threads |-> None]

\* the call of thread t returns or raises
FinishMT(t, o) ==
    /\ pc' = [pc EXCEPT ![t] = "done"]
    /\ outcome' = [outcome EXCEPT ![t] = o]
    /\ wire' = [wire EXCEPT ![t] = NoMessage]
    /\ depth' = [depth EXCEPT ![t] = 0]
    /\ method' = [method EXCEPT ![t] = None]
    /\ parameters' = [parameters EXCEPT ![t] = EmptyDict]

\* _query of thread t up to requests.post
SendMT(t, m, p) ==
    /\ credentials' = set_default_server(credentials)
    /\ wire' = [wire EXCEPT ![t] = Request(credentials, m, p)]
    /\ log' = [log EXCEPT ![t] = Append(@, Request(credentials, m, p))]

\* API.call(m, type_name, **kwargs) of thread t from its entry to its
\* requests.post, as frame number d
call_enterMT(t, m, type_name, kwargs, d) ==
    IF m = None
    THEN FinishMT(t, Raise(Exception("Must specify a method name"))) /\ UNCHANGED <<credentials, log>>
    ELSE IF must_authenticate_first(credentials)
    THEN FinishMT(t, Raise([type |-> "AttributeError"])) /\ UNCHANGED <<credentials, log>>
    ELSE /\ pc' = [pc EXCEPT ![t] = "call"]
         /\ method' = [method EXCEPT ![t] = m]
         /\ parameters' = [parameters EXCEPT ![t] = call_parameters(credentials, type_name, kwargs)]
         /\ depth' = [depth EXCEPT ![t] = d]
         /\ outcome' = [outcome EXCEPT ![t] = NoOutcome]
         /\ SendMT(t, m, call_parameters(credentials, type_name, kwargs))

\* thread t calls API.call
CallMT(t) ==
    /\ pc[t] = "idle"
    /\ \E m \in Methods, type_name \in TypeNames :
          /\ start' = [start EXCEPT ![t] = Snapshot("call", m, type_name, EmptyDict)]
          /\ call_enterMT(t, m, type_name, EmptyDict, 1)
    /\ UNCHANGED <<_reauthorize_count, replies, given_password, loaded>>

\* line 108-114 and 118-119 in thread t, from the return of requests.post
CallReceiveMT(t) ==
    /\ pc[t] = "call"
    /\ wire[t].kind \in {"response", "failure"}
    /\ LET r == query_result(wire[t])
       IN IF r.kind = "return"
          THEN /\ FinishMT(t, r)
               /\ _reauthorize_count' = IF is_success(r.value) THEN 0 ELSE _reauthorize_count
          ELSE IF should_reauthorize(r.exc, _reauthorize_count)
          THEN /\ pc' = [pc EXCEPT ![t] = "increment"]
               /\ wire' = [wire EXCEPT ![t] = NoMessage]
               /\ UNCHANGED <<_reauthorize_count, method, parameters, depth, outcome>>
          ELSE /\ FinishMT(t, r)
               /\ UNCHANGED _reauthorize_count
    /\ replies' = [replies EXCEPT ![t] = Append(@, wire[t])]
    /\ UNCHANGED <<credentials, log, start, given_password, loaded>>

\* line 115 in thread t: the read of self._reauthorize_count
LoadCount(t) ==
    /\ pc[t] = "increment"
    /\ loaded' = [loaded EXCEPT ![t] = _reauthorize_count]
    /\ pc' = [pc EXCEPT ![t] = "store"]
    /\ UNCHANGED <<credentials, _reauthorize_count, method, parameters, depth, wire, start, log, replies, outcome, given_password>>

\* line 115 in thread t: the write of self._reauthorize_count
StoreCount(t) ==
    /\ pc[t] = "store"
    /\ _reauthorize_count' = loaded[t] + 1
    /\ loaded' = [loaded EXCEPT ![t] = None]
    /\ pc' = [pc EXCEPT ![t] = "reauthorize"]
    /\ UNCHANGED <<credentials, method, parameters, depth, wire, start, log, replies, outcome, given_password>>

\* line 116 in thread t: API.authenticate() up to its requests.post
AuthenticateEnterMT(t) ==
    /\ pc[t] = "reauthorize"
    /\ pc' = [pc EXCEPT ![t] = "authenticate"]
    /\ SendMT(t, Str("Authenticate"), auth_data(credentials))
    /\ UNCHANGED <<_reauthorize_count, method, parameters, depth, start, replies, outcome, given_password, loaded>>

\* line 185-198 in thread t, from the return of requests.post
AuthenticateReceiveMT(t) ==
    /\ pc[t] = "authenticate"
    /\ wire[t].kind \in {"response", "failure"}
    /\ LET a == authenticate_result(credentials, query_result(wire[t]))
       IN /\ credentials' = a.credentials
          /\ IF a.out.kind = "raise"
             THEN FinishMT(t, a.out)
             ELSE /\ pc' = [pc EXCEPT ![t] = "retry"]
                  /\ wire' = [wire EXCEPT ![t] = NoMessage]
                  /\ UNCHANGED <<method, parameters, depth, outcome>>
    /\ replies' = [replies EXCEPT ![t] = Append(@, wire[t])]
    /\ UNCHANGED <<_reauthorize_count, start, log, given_password, loaded>>

\* line 117 in thread t: self.call(method, parameters) up to its requests.post
RetryMT(t) ==
    /\ pc[t] = "retry"
    /\ call_enterMT(t, method[t], parameters[t], EmptyDict, depth[t] + 1)
    /\ UNCHANGED <<_reauthorize_count, start, replies, given_password, loaded>>

\* the server answers the request of thread t
ServerRespondMT(t) ==
    /\ wire[t].kind = "request"
    /\ \E data \in BodiesMT(wire[t]) : wire' = [wire EXCEPT ![t] = [kind |-> "response", data |-> data]]
    /\ UNCHANGED <<pc, credentials, _reauthorize_count, method, parameters, depth, start, log, replies, outcome, given_password, loaded>>

\* requests.post of thread t fails
TransportFailureMT(t) ==
    /\ wire[t].kind = "request"
    /\ wire' = [wire EXCEPT ![t] = [kind |-> "failure"]]
    /\ UNCHANGED <<pc, credentials, _reauthorize_count, method, parameters, depth, start, log, replies, outcome, given_password, loaded>>

NextMT ==
    \/ \E t \in Threads : CallMT(t)
    \/ \E t \in Threads : CallReceiveMT(t)
    \/ \E t \in Threads : LoadCount(t)
    \/ \E t \in Threads : StoreCount(t)
    \/ \E t \in Threads : AuthenticateEnterMT(t)
    \/ \E t \in Threads : AuthenticateReceiveMT(t)
    \/ \E t \in Threads : RetryMT(t)
    \/ \E t \in Threads : ServerRespondMT(t)
    \/ \E t \in Threads : TransportFailureMT(t)

SpecMT == InitMT /\ [][NextMT]_vars

---------------------------------------------------------------------------
(* C20 *)

\* C20: with the calls of two threads overlapping on one client, the
\* reauthorization counter, which one thread alone keeps at 0 or 1, goes up to
\* the number of threads and never beyond it.
C20_CounterWithinThreads ==
    _reauthorize_count \in 0..Cardinality(Threads)

\* C20 witness: both threads were answered InvalidUserException for the same
\* session id, both passed the test of the counter, the counter is 2 and two
\* Authenticate requests are in flight
C20_TwoAuthenticatesInFlight ==
    /\ _reauthorize_count = 2
    /\ \A t \in Threads :
          /\ Len(log[t]) = 2
          /\ IsInvalidUser(replies[t][1])
          /\ log[t][1].params["credentials"]["sessionId"] = Str("s0")
          /\ wire[t].kind = "request"
          /\ wire[t].method = Str("Authenticate")

=============================================================================
